---- MODULE Spec2Model ----
(***************************************************************************)
(* Model of django_testing_utils: the fixture registry of BaseTestCase     *)
(* (mixins.py), the clock patches of TimeMixin (mixins.py) and the patch   *)
(* helpers override_defaults / disable_patchers (utils.py).                *)
(***************************************************************************)
EXTENDS Integers, Sequences, FiniteSets, TLC

\* ------------------------------------------------------------------ bounds
MaxPk == 3          \* primary keys per table
MaxTests == 2       \* test methods run in the class
MaxOps == 3         \* statements run by the test bodies of the class

\* ------------------------------------------------------------ python values
Tables == {"Project", "Task"}
Names == {"initial", "first", "changed", "altered"}
Keys == {"project", "task", "attr", "project2"}

\* a python value held by a class attribute or a registry entry
Absent == [kind |-> "absent", addr |-> 0, str |-> ""]
NoneVal == [kind |-> "none", addr |-> 0, str |-> ""]
Str(s) == [kind |-> "str", addr |-> 0, str |-> s]
Ref(a) == [kind |-> "ref", addr |-> a, str |-> ""]

\* a django model instance in memory: pk 0 is None, rel is the cached
\* related object (task.project), fk the stored foreign key (project_id)
Model(t, pk, n, fk, rel) == [type |-> t, pk |-> pk, name |-> n, fk |-> fk, rel |-> rel]

\* a row of the backing store
NoRow == [exists |-> FALSE, name |-> "", fk |-> 0]
Row(n, fk) == [exists |-> TRUE, name |-> n, fk |-> fk]

VARIABLES
    heap,       \* the model instances in memory: address -> instance
    attrs,      \* cls.__dict__: key -> value
    dictOrder,  \* insertion order of cls.__dict__
    cache,      \* cls._created_objects: sequence of [k, v] in insertion order
    store,      \* <<table, pk>> -> row
    store0,     \* the store when the test transaction began
    result,     \* the value the last helper call returned to the test
    phase,      \* "class" | "idle" | "test"
    tests,      \* test methods started so far
    ops,        \* statements run in the current test body
    lastOp,     \* the operation that produced this state
    lastArg,    \* its arguments
    raised,     \* the exception the last operation raised ("" when none)
    pristine,   \* structure of each class attribute when setUpTestData returned
    forgotten,  \* keys forget_object removed from the registry
    polluted    \* registered keys the earlier tests had left changed when the
                \* last setUp began

fixtureVars == <<heap, attrs, dictOrder, cache, store, store0, result, phase,
                 tests, ops, lastOp, lastArg, raised, pristine, forgotten, polluted>>

\* ------------------------------------------------------------ heap helpers
Min(S) == CHOOSE x \in S : \A y \in S : x <= y
Max(S) == CHOOSE x \in S : \A y \in S : x >= y

\* a new object gets the next address
Alloc(h) == Len(h) + 1

\* copy.deepcopy of one model instance: the instance and the related object
\* it caches are both duplicated
DeepCopyObj(h, a) ==
    LET o == h[a]
        n == Alloc(h)
        m == n + 1
    IN IF o.rel = 0
       THEN [heap |-> Append(h, o), addr |-> n]
       ELSE [heap |-> Append(Append(h, [o EXCEPT !.rel = m]), h[o.rel]), addr |-> n]

\* copy.deepcopy of any value: str and None are immutable and returned as is
DeepCopyAlias(h, v) == [heap |-> h, val |-> v]

DeepCopy(h, v) ==
    IF v.kind = "ref"
    THEN LET c == DeepCopyObj(h, v.addr) IN [heap |-> c.heap, val |-> Ref(c.addr)]
    ELSE [heap |-> h, val |-> v]

\* the objects python keeps alive are those reachable from the registry, the
\* class attributes and the local of the test; they are listed in that order
\* and addressed by their position, everything else is freed
KeySeq == <<"project", "task", "attr", "project2">>

AddAddr(seq, a) ==
    IF a = 0 \/ \E i \in 1..Len(seq) : seq[i] = a THEN seq ELSE Append(seq, a)

RECURSIVE AddCache(_, _, _)
AddCache(seq, ch, i) ==
    IF i > Len(ch) THEN seq ELSE AddCache(AddAddr(seq, ch[i].v.addr), ch, i + 1)

RECURSIVE AddAttrs(_, _, _)
AddAttrs(seq, at, i) ==
    IF i > Len(KeySeq) THEN seq ELSE AddAttrs(AddAddr(seq, at[KeySeq[i]].addr), at, i + 1)

RECURSIVE AddRelated(_, _, _)
AddRelated(seq, h, i) ==
    IF i > Len(seq) THEN seq ELSE AddRelated(AddAddr(seq, h[seq[i]].rel), h, i + 1)

Reachable(h, at, ch, res) ==
    AddRelated(AddAddr(AddAttrs(AddCache(<<>>, ch, 1), at, 1), res.addr), h, 1)

Collect(h, at, ch, res) ==
    LET live == Reachable(h, at, ch, res)
        to(a) == IF a = 0 THEN 0 ELSE CHOOSE i \in 1..Len(live) : live[i] = a
        val(v) == IF v.kind = "ref" THEN [v EXCEPT !.addr = to(v.addr)] ELSE v
    IN [heap |-> [i \in 1..Len(live) |-> [h[live[i]] EXCEPT !.rel = to(@)]],
        attrs |-> [k \in Keys |-> val(at[k])],
        cache |-> [i \in 1..Len(ch) |-> [ch[i] EXCEPT !.v = val(@)]],
        result |-> val(res)]

\* the memory after a statement left it as h, at, ch, res
Commit(h, at, ch, res) ==
    LET c == Collect(h, at, ch, res)
    IN /\ heap' = c.heap
       /\ attrs' = c.attrs
       /\ cache' = c.cache
       /\ result' = c.result

\* structure of a value, without object identity
Struct(h, v) ==
    IF v.kind = "ref"
    THEN LET o == h[v.addr]
         IN [kind |-> "ref", str |-> "", type |-> o.type, pk |-> o.pk,
             name |-> o.name, fk |-> o.fk,
             rel |-> IF o.rel = 0 THEN <<>>
                     ELSE <<h[o.rel].type, h[o.rel].pk, h[o.rel].name>>]
    ELSE [kind |-> v.kind, str |-> v.str, type |-> "", pk |-> 0,
          name |-> "", fk |-> 0, rel |-> <<>>]

\* ---------------------------------------------------- the registry as a dict
CacheKeys(ch) == {ch[i].k : i \in 1..Len(ch)}
CacheIndex(ch, k) == CHOOSE i \in 1..Len(ch) : ch[i].k = k
CacheGet(ch, k) == ch[CacheIndex(ch, k)].v
\* cache[k] = v
CacheSet(ch, k, v) ==
    IF k \in CacheKeys(ch)
    THEN [ch EXCEPT ![CacheIndex(ch, k)].v = v]
    ELSE Append(ch, [k |-> k, v |-> v])
\* del cache[k]
CacheDel(ch, k) == SelectSeq(ch, LAMBDA e : e.k # k)

\* ------------------------------------------------------------ backing store
TableRows(st, t) == {pk \in 1..MaxPk : st[<<t, pk>>].exists}
NextPk(st, t) == IF TableRows(st, t) = {} THEN 1 ELSE Max(TableRows(st, t)) + 1
\* Model.objects.filter(pk=pk).update(name=n)
StoreUpdateAll(st, t, pk, n) ==
    [key \in DOMAIN st |-> IF key[1] = t /\ st[key].exists THEN [st[key] EXCEPT !.name = n]
                           ELSE st[key]]

StoreUpdate(st, t, pk, n) ==
    IF pk \in TableRows(st, t) THEN [st EXCEPT ![<<t, pk>>].name = n] ELSE st

\* python's != between two attribute values, as the diff of wrap_test_data
\* evaluates it: an absent key reads as None, a django model compares by
\* concrete model and pk, and by identity while pk is None
PyNe(h, x, y) ==
    LET xk == IF x.kind = "absent" THEN "none" ELSE x.kind
        yk == IF y.kind = "absent" THEN "none" ELSE y.kind
    IN IF xk # yk THEN TRUE
       ELSE IF xk = "str" THEN x.str # y.str
       ELSE IF xk = "ref"
            THEN ~(/\ h[x.addr].type = h[y.addr].type
                   /\ IF h[x.addr].pk = 0 THEN x.addr = y.addr
                      ELSE h[x.addr].pk = h[y.addr].pk)
       ELSE FALSE

\* setattr(cls, k, v): a new key goes to the end of cls.__dict__
SetAttrOrder(ord, k) ==
    IF \E i \in 1..Len(ord) : ord[i] = k THEN ord ELSE Append(ord, k)

\* the class state a setUpTestData body works on
ClassState(h, at, ord, ch, st) ==
    [heap |-> h, attrs |-> at, order |-> ord, cache |-> ch, store |-> st]

\* cls.<k> = Model.objects.create(name=n, <fk to the object at rel>)
CreateAttr(s, k, t, n, rel) ==
    LET a == Alloc(s.heap)
        pk == NextPk(s.store, t)
        fk == IF rel = 0 THEN 0 ELSE s.heap[rel].pk
    IN [s EXCEPT !.heap = Append(@, Model(t, pk, n, fk, rel)),
                 !.store = [@ EXCEPT ![<<t, pk>>] = Row(n, fk)],
                 !.attrs = [@ EXCEPT ![k] = Ref(a)],
                 !.order = SetAttrOrder(@, k)]

\* the loop of wrap_test_data.wrapper over after.items(), from position i
RECURSIVE CaptureFrom(_, _, _, _, _, _)
CaptureFrom(h, before, after, ord, ch, i) ==
    IF i > Len(ord) THEN ch
    ELSE LET k == ord[i]
             v == after[k]
         IN CaptureFrom(h, before, after, ord,
                        IF PyNe(h, before[k], v) THEN CacheSet(ch, k, v) ELSE ch,
                        i + 1)

\* what the wrapper does once func(cls) has turned class state s0 into s1
WrapperCapture(s0, s1) ==
    [s1 EXCEPT !.cache = CaptureFrom(s1.heap, s0.attrs, s1.attrs, s1.order, s1.cache, 1)]

\* MixinBaseTestCase.setUpTestData, wrapped: project, task and attr
MixinBaseSetUpTestData(s) ==
    LET s1 == CreateAttr(s, "project", "Project", "initial", 0)
        s2 == CreateAttr(s1, "task", "Task", "initial", s1.attrs["project"].addr)
        s3 == [s2 EXCEPT !.attrs = [@ EXCEPT !["attr"] = Str("a")],
                         !.order = SetAttrOrder(@, "attr")]
    IN WrapperCapture(s, s3)

\* SetUpTestDataResetTestCase.setUpTestData, wrapped: the base routine through
\* super(), then project2
ResetSetUpTestData(s) ==
    LET s1 == MixinBaseSetUpTestData(s)
        s2 == CreateAttr(s1, "project2", "Project", "first", 0)
    IN WrapperCapture(s, s2)

\* the loop of refresh_objects over cache.items(), from position i
RECURSIVE RefreshFrom(_, _, _, _)
RefreshFrom(h, at, ch, i) ==
    IF i > Len(ch) THEN [heap |-> h, attrs |-> at]
    ELSE LET c == DeepCopy(h, ch[i].v)
         IN RefreshFrom(c.heap, [at EXCEPT ![ch[i].k] = c.val], ch, i + 1)

\* refresh_objects
RefreshObjectsOp(h, at, ch) == RefreshFrom(h, at, ch, 1)

\* the search loop of forget_object: the first key whose snapshot has the
\* type and the pk of obj ("" when none, "!" when v.pk raises AttributeError)
RECURSIVE ForgetKeyFrom(_, _, _, _)
ForgetKeyFrom(h, ch, obj, i) ==
    IF i > Len(ch) THEN ""
    ELSE LET v == ch[i].v
         IN IF v.kind = obj.kind /\ v.kind # "ref"
            THEN "!"
            ELSE IF /\ v.kind = "ref" /\ obj.kind = "ref"
                    /\ h[v.addr].type = h[obj.addr].type
                    /\ h[v.addr].pk = h[obj.addr].pk
                 THEN ch[i].k
                 ELSE ForgetKeyFrom(h, ch, obj, i + 1)

ForgetKey(h, ch, obj) == ForgetKeyFrom(h, ch, obj, 1)

ForgetKeepsKey(ch, key) == ch

\* the registry after forget_object found key
ForgetDelete(ch, key) == IF key \in {"", "!"} THEN ch ELSE CacheDel(ch, key)

\* ================================================================ patches
MaxTime == 2        \* instants of the real clock

\* the value bound to a patched symbol: ret is the instant a mock would
\* return had it been built with return_value instead of side_effect
TV(v, inst, ret) == [v |-> v, inst |-> inst, ret |-> ret]
Missing == TV("<missing>", 0, 0)

Targets == {"timezone.now", "timezone.datetime",
            "defaults.setting_1", "defaults.setting_2", "defaults.setting_3"}

\* how the mock library of the build treats misuse: stop() of a patch that is
\* not started raises RuntimeError or returns None, start() of a started patch
\* raises or patches again over its own replacement
Builds == {[stop |-> "raise", start |-> "reapply"],
           [stop |-> "none", start |-> "reapply"],
           [stop |-> "raise", start |-> "raise"]}

VARIABLES
    target,     \* symbol -> the value it is bound to now
    patches,    \* the mock._patch objects created so far, by creation index
    build,      \* the behaviour of the mock library on misuse
    now,        \* self.now of each test instance, by test number
    realClock,  \* the real current instant
    nowPatcher, \* self.now_patcher of the running instance (0 when unset)
    dtPatcher,  \* self.timezone_datetime_patcher (0 when unset)
    lastRead,   \* what the last timezone.now() returned
    prevRead,   \* what the one before returned
    readsSince  \* reads of timezone.now() since self.now was last assigned

patchVars == <<target, patches, build>>
clockVars == <<now, realClock, nowPatcher, dtPatcher, lastRead, prevRead, readsSince>>

VARIABLES
    dpList,     \* disable_patchers.patchers: the patches handed to the suspension
    dpForm,     \* "decorator" | "context"
    dpPhase,    \* "idle" | "work" | "worked" | "done"
    dpBefore,   \* the active flag of every patch when the suspension began
    dpWork,     \* outcome of the protected work: "" | "return" | "raise"
    dpError,    \* the exception that reaches the caller ("" when none)
    dpStart,    \* the patches and the patched symbols when the suspension began
    dpLog       \* the stop() / start() calls of the suspension and the work, in order

dpVars == <<dpList, dpForm, dpPhase, dpBefore, dpWork, dpError, dpStart, dpLog>>

VARIABLES
    ovSettings, \* override_defaults.settings: the setting names, in dict order
    ovPatchers, \* override_defaults.patchers
    ovPhase,    \* "idle" | "entered" | "worked"
    ovCycles,   \* scopes entered on this instance so far
    ovBefore,   \* the patched symbols when the scope was entered
    ovStarted,  \* the patches created by the last enable()
    ovWork,     \* outcome of the work in the scope: "" | "return" | "raise"
    ovError,    \* the exception the last enable() / disable() raised
    ovLog       \* the stop() calls of the last disable(), in order

ovVars == <<ovSettings, ovPatchers, ovPhase, ovCycles, ovBefore, ovStarted, ovWork, ovError,
            ovLog>>

\* a field value (a name or a pk) and the AssertionError of assertEqual
Fv(s, i) == [s |-> s, i |-> i]
NoFailure == [field |-> "", actual |-> Fv("", 0), expected |-> Fv("", 0)]

VARIABLES
    failure,    \* the arguments of the AssertionError the last call raised
    expected    \* the keyword arguments of the last assert_object_fields

helperVars == <<failure, expected>>

VARIABLES
    baseBody,   \* the statements of setUpTestData of class Base
    subBody,    \* those of class Sub after super().setUpTestData() (<<>>: Sub
                \* defines no setUpTestData)
    clsDict,    \* class -> its own __dict__
    clsOrder,   \* class -> insertion order of its __dict__
    clsReg,     \* class -> its _created_objects
    clsDone,    \* the classes whose setUpTestData has run
    regSingle,  \* class -> the registry one wrapper alone would have built
    bodyRuns,   \* class -> times the body of Base ran during its setUpTestData
    classOps    \* refresh_objects / forget_object calls made on the classes

classVars == <<baseBody, subBody, clsDict, clsOrder, clsReg, clsDone, regSingle,
               bodyRuns, classOps>>

extVars == <<helperVars, classVars>>

\* mock.patch(target, new): a patch object, not started
NewPatch(t, new) == [target |-> t, new |-> new, active |-> FALSE, saved |-> Missing]

\* a call of start() or stop() on patch id, which was active or not then
Call(op, id, active) == [op |-> op, id |-> id, active |-> active]

\* log holds the calls made on the patches, in order
PatchState(ps, tg, exc) == [patches |-> ps, target |-> tg, raised |-> exc, log |-> <<>>]

\* patcher.start() on the patch state w = [patches, target, raised, log]
PatchStart(w, id) ==
    LET p == w.patches[id]
        w0 == [w EXCEPT !.log = Append(@, Call("start", id, p.active))]
    IN IF p.active /\ build.start = "raise"
       THEN [w0 EXCEPT !.raised = "RuntimeError"]
       ELSE IF w.target[p.target] = Missing
       THEN [w0 EXCEPT !.raised = "AttributeError"]
       ELSE [w0 EXCEPT !.patches = [@ EXCEPT ![id].active = TRUE,
                                            ![id].saved = w.target[p.target]],
                       !.target = [@ EXCEPT ![p.target] = p.new],
                       !.raised = ""]

\* patcher.stop()
PatchStop(w, id) ==
    LET p == w.patches[id]
        w0 == [w EXCEPT !.log = Append(@, Call("stop", id, p.active))]
    IN IF p.active
       THEN [w0 EXCEPT !.patches = [@ EXCEPT ![id].active = FALSE],
                       !.target = [@ EXCEPT ![p.target] = p.saved],
                       !.raised = ""]
       ELSE IF build.stop = "raise"
       THEN [w0 EXCEPT !.raised = "RuntimeError"]
       ELSE w0

\* for p in ids: p.start()   (the loop ends at the first exception)
RECURSIVE StartAll(_, _, _)
StartAll(w, ids, i) ==
    IF i > Len(ids) \/ w.raised # "" THEN w
    ELSE StartAll(PatchStart(w, ids[i]), ids, i + 1)

\* for p in ids: p.stop()
RECURSIVE StopAll(_, _, _)
StopAll(w, ids, i) ==
    IF i > Len(ids) \/ w.raised # "" THEN w
    ELSE StopAll(PatchStop(w, ids[i]), ids, i + 1)

\* ============================================================== TimeMixin
GetNowReturnValue(tv, ns) == tv.ret

\* TimeMixin.get_now of the instance the mock is bound to
GetNow(tv, ns) == ns[tv.inst]

\* timezone.now(): the real clock, or the side effect of the mock
TimezoneNow(tg, ns, clock) ==
    IF tg["timezone.now"].v = "real" THEN clock ELSE GetNow(tg["timezone.now"], ns)

\* TimeMixin.setUp of test instance inst, after super().setUp(): the result
\* holds the patch state and the two patcher attributes
TimeSetUp(w, inst, t0) ==
    LET ps1 == Append(w.patches, NewPatch("timezone.now", TV("get_now", inst, t0)))
        id1 == Len(ps1)
        w1 == PatchStart([w EXCEPT !.patches = ps1], id1)
    IN IF w1.raised # "" THEN [w |-> w1, nowPatcher |-> id1, dtPatcher |-> 0]
       ELSE LET ps2 == Append(w1.patches,
                              NewPatch("timezone.datetime", TV("MockedDateTime", 0, 0)))
                id2 == Len(ps2)
            IN [w |-> PatchStart([w1 EXCEPT !.patches = ps2], id2),
                nowPatcher |-> id1, dtPatcher |-> id2]

\* TimeMixin.tearDown after super().tearDown() returned
TimeTearDown(w, np, dp) ==
    LET w1 == PatchStop(w, dp)
    IN IF w1.raised # "" THEN w1 ELSE PatchStop(w1, np)

\* ===================================================== fixture helper calls
Arg(k, n) == [k |-> k, n |-> n]
NoArg == Arg("", "")

CloneInPlace(h, st, a, ov) ==
    LET o == h[a]
        pk == NextPk(st, o.type)
        n == IF ov = "" THEN o.name ELSE ov
    IN [heap |-> [h EXCEPT ![a].pk = pk, ![a].name = n],
        store |-> [st EXCEPT ![<<o.type, pk>>] = Row(n, o.fk)],
        addr |-> a]

\* clone_object(obj, name=ov): deepcopy, pk = None, setattr, save(force_insert)
CloneObjectOp(h, st, a, ov) ==
    LET c == DeepCopyObj(h, a)
        o == c.heap[c.addr]
        pk == NextPk(st, o.type)
        n == IF ov = "" THEN o.name ELSE ov
    IN [heap |-> [c.heap EXCEPT ![c.addr].pk = pk, ![c.addr].name = n],
        store |-> [st EXCEPT ![<<o.type, pk>>] = Row(n, o.fk)],
        addr |-> c.addr]

ReloadFromMemory(h, st, a) ==
    [heap |-> Append(h, [h[a] EXCEPT !.rel = 0]), addr |-> Alloc(h)]

\* Model.objects.get(pk=obj.pk): a new instance built from the row
ReloadOp(h, st, a) ==
    LET o == h[a]
        r == st[<<o.type, o.pk>>]
    IN [heap |-> Append(h, Model(o.type, o.pk, r.name, r.fk, 0)), addr |-> Alloc(h)]

\* ============================================== the class and its test runs
SettingsInit ==
    [t \in Targets |->
        CASE t = "timezone.now" -> TV("real", 0, 0)
          [] t = "timezone.datetime" -> TV("datetime", 0, 0)
          [] t = "defaults.setting_1" -> TV("original1", 0, 0)
          [] t = "defaults.setting_2" -> TV("original2", 0, 0)
          [] OTHER -> Missing]

FixtureInit ==
    /\ heap = <<>>
    /\ attrs = [k \in Keys |-> Absent]
    /\ dictOrder = <<>>
    /\ cache = <<>>
    /\ store = [key \in Tables \X (1..MaxPk) |-> NoRow]
    /\ store0 = store
    /\ result = NoneVal
    /\ pristine = [k \in Keys |-> Struct(heap, Absent)]
    /\ forgotten = {}
    /\ polluted = {}

RunInit ==
    /\ phase = "class"
    /\ tests = 0
    /\ ops = 0
    /\ lastOp = "init"
    /\ lastArg = NoArg
    /\ raised = ""

ClockInit ==
    /\ now = <<>>
    /\ realClock = 0
    /\ nowPatcher = 0
    /\ dtPatcher = 0
    /\ lastRead = 0
    /\ prevRead = 0
    /\ readsSince = 0

PatchInit ==
    /\ target = SettingsInit
    /\ patches = <<>>
    /\ build \in Builds

\* the wrapped setUpTestData of the class under test runs once: the class is
\* MixinBaseTestCase (project, task, attr) or SetUpTestDataResetTestCase
\* (project2 as well); attr may already be set in the class body
SetUpTestData(withProject2, bodyAttr) ==
    /\ phase = "class"
    /\ LET at0 == [attrs EXCEPT !["attr"] = bodyAttr]
           ord0 == IF bodyAttr = Absent THEN <<>> ELSE <<"attr">>
           s0 == ClassState(heap, at0, ord0, cache, store)
           s1 == IF withProject2 THEN ResetSetUpTestData(s0)
                 ELSE MixinBaseSetUpTestData(s0)
       IN /\ Commit(s1.heap, s1.attrs, s1.cache, result)
          /\ dictOrder' = s1.order
          /\ store' = s1.store
          /\ store0' = s1.store
          /\ pristine' = [k \in Keys |-> Struct(s1.heap, s1.attrs[k])]
    /\ phase' = "idle"
    /\ lastOp' = "setUpTestData"
    /\ lastArg' = NoArg
    /\ UNCHANGED <<tests, ops, raised, forgotten, polluted, patchVars, clockVars, dpVars, ovVars,
                   extVars>>

\* BaseTestCase.setUp: refresh_objects, then TimeMixin.setUp through super()
SetUp ==
    /\ phase = "idle"
    /\ tests < MaxTests
    /\ LET r == RefreshObjectsOp(heap, attrs, cache)
           t0 == TimezoneNow(target, now, realClock)
           ts == TimeSetUp(PatchState(patches, target, ""), tests + 1, t0)
       IN /\ Commit(r.heap, r.attrs, cache, result)
          /\ now' = Append(now, t0)
          /\ patches' = ts.w.patches
          /\ target' = ts.w.target
          /\ raised' = ts.w.raised
          /\ nowPatcher' = ts.nowPatcher
          /\ dtPatcher' = ts.dtPatcher
          /\ phase' = IF ts.w.raised = "" THEN "test" ELSE "idle"
    /\ polluted' = {k \in CacheKeys(cache) : Struct(heap, attrs[k]) # pristine[k]}
    /\ tests' = tests + 1
    /\ lastOp' = "setUp"
    /\ lastArg' = NoArg
    /\ UNCHANGED <<dictOrder, store, store0, ops, pristine, forgotten,
                   build, realClock, lastRead, prevRead, readsSince, dpVars, ovVars,
                   extVars>>

\* TimeMixin.tearDown, then the test transaction of django's TestCase is
\* rolled back and the locals of the test method die
TearDown ==
    /\ phase = "test"
    /\ LET w == TimeTearDown(PatchState(patches, target, ""), nowPatcher, dtPatcher)
       IN /\ patches' = w.patches
          /\ target' = w.target
          /\ raised' = w.raised
    /\ store' = store0
    /\ Commit(heap, attrs, cache, NoneVal)
    /\ phase' = "idle"
    /\ lastOp' = "tearDown"
    /\ lastArg' = NoArg
    /\ UNCHANGED <<dictOrder, store0, tests, ops, pristine, forgotten, polluted,
                   build, clockVars, dpVars, ovVars, extVars>>

\* what a statement of a test body leaves alone
InBody == phase = "test" /\ ops < MaxOps
BodyStep(op, arg) ==
    /\ ops' = ops + 1
    /\ lastOp' = op
    /\ lastArg' = arg
    /\ UNCHANGED <<dictOrder, store0, phase, tests, pristine, polluted, patchVars, clockVars,
                   dpVars, ovVars, extVars>>

\* self.<k>.name = n
SetField(k, n) ==
    /\ InBody
    /\ attrs[k].kind = "ref"
    /\ Commit([heap EXCEPT ![attrs[k].addr].name = n], attrs, cache, result)
    /\ raised' = ""
    /\ BodyStep("set_field", Arg(k, n))
    /\ UNCHANGED <<store, forgotten>>

\* self.<k>.project.name = n
SetRelatedField(k, n) ==
    /\ InBody
    /\ attrs[k].kind = "ref"
    /\ heap[attrs[k].addr].rel # 0
    /\ Commit([heap EXCEPT ![heap[attrs[k].addr].rel].name = n], attrs, cache, result)
    /\ raised' = ""
    /\ BodyStep("set_related_field", Arg(k, n))
    /\ UNCHANGED <<store, forgotten>>

\* values a test may bind a class attribute to
Rebindable ==
    {Str("b")} \cup (IF attrs["project"].kind = "ref" THEN {attrs["project"]} ELSE {})
    \cup (IF result.kind = "ref" THEN {result} ELSE {})

\* self.__class__.<k> = v
SetClassAttr(k, v) ==
    /\ InBody
    /\ attrs[k] # Absent
    /\ attrs[k] # v
    /\ Commit(heap, [attrs EXCEPT ![k] = v], cache, result)
    /\ raised' = ""
    /\ BodyStep("set_class_attr", Arg(k, ""))
    /\ UNCHANGED <<store, forgotten>>

\* self.refresh_objects()
RefreshObjects ==
    /\ InBody
    /\ LET r == RefreshObjectsOp(heap, attrs, cache)
       IN Commit(r.heap, r.attrs, cache, result)
    /\ raised' = ""
    /\ BodyStep("refresh_objects", NoArg)
    /\ UNCHANGED <<store, forgotten>>

\* self.forget_object(obj), obj read from class attribute src or the local
ForgetObject(src) ==
    /\ InBody
    /\ LET obj == IF src = "<result>" THEN result ELSE attrs[src]
           key == ForgetKey(heap, cache, obj)
       IN /\ obj.kind # "absent"
          /\ Commit(heap, attrs, ForgetDelete(cache, key), result)
          /\ forgotten' = IF key \in {"", "!"} THEN forgotten ELSE forgotten \cup {key}
          /\ raised' = IF key = "!" THEN "AttributeError" ELSE ""
    /\ BodyStep("forget_object", Arg(src, ""))
    /\ UNCHANGED <<store>>

\* self.update_object(self.<k>, name=n)
UpdateObject(k, n) ==
    /\ InBody
    /\ attrs[k].kind = "ref"
    /\ store' = StoreUpdate(store, heap[attrs[k].addr].type, heap[attrs[k].addr].pk, n)
    /\ raised' = ""
    /\ BodyStep("update_object", Arg(k, n))
    /\ UNCHANGED <<heap, attrs, cache, result, forgotten>>

\* self.<k>.refresh_from_db()
RefreshFromDb(k) ==
    /\ InBody
    /\ attrs[k].kind = "ref"
    /\ LET a == attrs[k].addr
           r == store[<<heap[a].type, heap[a].pk>>]
       IN /\ r.exists
          /\ Commit([heap EXCEPT ![a].name = r.name, ![a].fk = r.fk], attrs, cache, result)
    /\ raised' = ""
    /\ BodyStep("refresh_from_db", Arg(k, ""))
    /\ UNCHANGED <<store, forgotten>>

\* local = self.clone_object(self.<k>, name=ov)   (no override when ov = "")
CloneObject(k, ov) ==
    /\ InBody
    /\ attrs[k].kind = "ref"
    /\ NextPk(store, heap[attrs[k].addr].type) <= MaxPk
    /\ LET c == CloneObjectOp(heap, store, attrs[k].addr, ov)
       IN /\ Commit(c.heap, attrs, cache, Ref(c.addr))
          /\ store' = c.store
    /\ raised' = ""
    /\ BodyStep("clone_object", Arg(k, ov))
    /\ UNCHANGED <<forgotten>>

\* local = self.reload(self.<k>)
Reload(k) ==
    /\ InBody
    /\ attrs[k].kind = "ref"
    /\ store[<<heap[attrs[k].addr].type, heap[attrs[k].addr].pk>>].exists
    /\ LET c == ReloadOp(heap, store, attrs[k].addr)
       IN Commit(c.heap, attrs, cache, Ref(c.addr))
    /\ raised' = ""
    /\ BodyStep("reload", Arg(k, ""))
    /\ UNCHANGED <<store, forgotten>>

MutNames == {"changed"}
StoreNames == {"altered"}

DpInit ==
    /\ dpList = <<>>
    /\ dpForm = ""
    /\ dpPhase = "idle"
    /\ dpBefore = <<>>
    /\ dpWork = ""
    /\ dpError = ""
    /\ dpStart = [patches |-> <<>>, target |-> SettingsInit]
    /\ dpLog = <<>>

HelperInit ==
    /\ failure = NoFailure
    /\ expected = <<>>

Classes == {"Base", "Sub", "Other"}

ClassInit ==
    /\ baseBody = <<>>
    /\ subBody = <<>>
    /\ clsDict = [c \in Classes |-> [k \in Keys |-> Absent]]
    /\ clsOrder = [c \in Classes |-> <<>>]
    /\ clsReg = [c \in Classes |-> <<>>]
    /\ clsDone = {}
    /\ regSingle = [c \in Classes |-> <<>>]
    /\ bodyRuns = [c \in Classes |-> 0]
    /\ classOps = 0

ExtInit == HelperInit /\ ClassInit

OvInit ==
    /\ ovSettings = <<>>
    /\ ovPatchers = <<>>
    /\ ovPhase = "idle"
    /\ ovCycles = 0
    /\ ovBefore = SettingsInit
    /\ ovStarted = <<>>
    /\ ovWork = ""
    /\ ovError = ""
    /\ ovLog = <<>>

Init ==
    /\ FixtureInit /\ RunInit /\ ClockInit /\ PatchInit /\ DpInit /\ OvInit /\ ExtInit
    /\ build = [stop |-> "none", start |-> "reapply"]

Next ==
    \/ \E b \in BOOLEAN : SetUpTestData(b, Absent)
    \/ SetUp
    \/ TearDown
    \/ \E k \in {"project", "project2", "task"}, n \in MutNames : SetField(k, n)
    \/ \E n \in MutNames : SetRelatedField("task", n)
    \/ \E k \in {"attr", "project", "project2"} : \E v \in Rebindable : SetClassAttr(k, v)
    \/ RefreshObjects
    \/ \E src \in {"project", "project2", "attr", "<result>"} : ForgetObject(src)
    \/ \E k \in {"project", "project2"}, n \in StoreNames : UpdateObject(k, n)
    \/ RefreshFromDb("project")
    \/ \E k \in {"project", "task"}, ov \in {"", "changed"} : CloneObject(k, ov)
    \/ Reload("project")

vars == <<fixtureVars, patchVars, clockVars, dpVars, ovVars, extVars>>

Spec == Init /\ [][Next]_vars

\* ------------------------------------------------------ fixture properties
RegisteredKeys == CacheKeys(cache)
Live(k) == Struct(heap, attrs[k])
Refreshing(op) == op \in {"setUp", "refresh_objects"}

\* C1 (isolation): when a test body starts, right after setUp ran
\* refresh_objects, every key still in the registry has the structure it had
\* when setUpTestData returned, whatever the earlier tests did
C1_Isolation ==
    (lastOp = "setUp" /\ phase = "test") =>
        \A k \in RegisteredKeys : Live(k) = pristine[k]

\* the second test starts after the first one changed a field of project in
\* memory, rebound attr or changed task through its related object
C1_Witness ==
    /\ lastOp = "setUp" /\ phase = "test" /\ tests = 2
    /\ Cardinality(polluted) >= 2
    /\ polluted \subseteq RegisteredKeys

\* C2 (forget monotonicity): a key forget_object removed never comes back to
\* the registry, setUp / refresh_objects / tearDown leave its class attribute as
\* the tests left it, and every key still registered is restored by a refresh
C2_ForgetMonotonic ==
    [][/\ \A k \in forgotten :
            /\ k \notin CacheKeys(cache')
            /\ lastOp' \in {"setUp", "refresh_objects", "tearDown"}
                   => Struct(heap', attrs'[k]) = Live(k)
       /\ Refreshing(lastOp') =>
            \A j \in CacheKeys(cache') : Struct(heap', attrs'[j]) = pristine[j]]_vars

\* project2 was forgotten and both names were set by the first test: the second
\* test sees project restored and project2 still modified
C2_Witness ==
    /\ lastOp = "setUp" /\ tests = 2
    /\ forgotten = {"project2"}
    /\ "project" \in polluted
    /\ heap[attrs["project"].addr].name = "initial"
    /\ heap[attrs["project2"].addr].name = "changed"

\* the objects one value is made of
Parts(h, v) ==
    IF v.kind # "ref" THEN {} ELSE {v.addr} \cup ({h[v.addr].rel} \ {0})

\* C3 (copy independence): once setUpTestData has returned, no object held by
\* the registry is, or is part of, the object a class attribute holds
C3_CopyIndependence ==
    phase # "class" =>
        \A i \in 1..Len(cache) : \A k \in Keys :
            Parts(heap, cache[i].v) \cap Parts(heap, attrs[k]) = {}

\* C9 (clone independence): clone_object of a persisted fixture returns a new
\* object with a new pk, the overridden name, the other fields of the fixture
\* and a row of its own, and leaves the fixture and its row as they were
C9_CloneIndependence ==
    [][lastOp' = "clone_object" =>
        LET k == lastArg'.k
            ov == lastArg'.n
            F == heap[attrs[k].addr]
            c == heap'[result'.addr]
        IN (F.pk # 0 /\ store[<<F.type, F.pk>>].exists) =>
            /\ result'.kind = "ref"
            /\ c.pk # 0 /\ c.pk # F.pk
            /\ ~store[<<c.type, c.pk>>].exists
            /\ c.name = (IF ov = "" THEN F.name ELSE ov)
            /\ c.type = F.type /\ c.fk = F.fk
            /\ Struct(heap', result').rel = Live(k).rel
            /\ store'[<<c.type, c.pk>>] = Row(c.name, c.fk)
            /\ Parts(heap', result') \cap Parts(heap', attrs'[k]) = {}
            /\ Struct(heap', attrs'[k]) = Live(k)
            /\ store'[<<F.type, F.pk>>] = store[<<F.type, F.pk>>]]_vars

\* a clone of task with another name: its own pk and row, task as before
C9_Witness ==
    /\ lastOp = "clone_object" /\ lastArg = Arg("task", "changed")
    /\ heap[result.addr].pk = 2
    /\ heap[result.addr].name = "changed"
    /\ heap[attrs["task"].addr].name = "initial"
    /\ store[<<"Task", 2>>].exists /\ store[<<"Task", 1>>].name = "initial"

\* C10 (store-only update): update_object changes the name in the row with the
\* pk of the fixture and nothing else: not the object in memory, not the
\* registry, not another row; refresh_from_db then shows the stored value
C10_StoreOnlyUpdate ==
    [][/\ lastOp' = "update_object" =>
            LET F == heap[attrs[lastArg'.k].addr]
            IN store[<<F.type, F.pk>>].exists =>
                /\ store' = [store EXCEPT ![<<F.type, F.pk>>].name = lastArg'.n]
                /\ heap' = heap /\ attrs' = attrs /\ cache' = cache
                /\ result' = result
       /\ lastOp' = "refresh_from_db" =>
            LET F == heap[attrs[lastArg'.k].addr]
            IN heap'[attrs'[lastArg'.k].addr].name = store[<<F.type, F.pk>>].name]_vars

\* the row of project is altered while project in memory keeps its name
C10_Witness ==
    /\ lastOp = "update_object" /\ lastArg = Arg("project", "altered")
    /\ heap[attrs["project"].addr].name = "initial"
    /\ store[<<"Project", 1>>].name = "altered"
    /\ store[<<"Project", 2>>].name = "first"

\* ============================ a TimeMixin test case (no fixtures): SpecClock
Times == 0..MaxTime

ClockStep(op, arg) ==
    /\ lastOp' = op
    /\ lastArg' = arg
    /\ UNCHANGED <<heap, attrs, dictOrder, cache, store, store0, result, pristine,
                   forgotten, polluted, build, dpVars, ovVars, extVars>>

\* the runner calls setUp of the next test instance; when setUp raises the
\* test ends there and tearDown is not called
ClockSetUp ==
    /\ phase = "idle"
    /\ tests < MaxTests
    /\ LET t0 == TimezoneNow(target, now, realClock)
           ts == TimeSetUp(PatchState(patches, target, ""), tests + 1, t0)
       IN /\ now' = Append(now, t0)
          /\ patches' = ts.w.patches
          /\ target' = ts.w.target
          /\ raised' = ts.w.raised
          /\ nowPatcher' = ts.nowPatcher
          /\ dtPatcher' = ts.dtPatcher
          /\ phase' = IF ts.w.raised = "" THEN "test" ELSE "idle"
    /\ tests' = tests + 1
    /\ readsSince' = 0
    /\ ClockStep("setUp", NoArg)
    /\ UNCHANGED <<ops, realClock, lastRead, prevRead>>

\* the runner calls tearDown once the body has passed or failed; superOk tells
\* whether super().tearDown() returned
ClockTearDown(body, superOk) ==
    /\ phase = "test"
    /\ LET w0 == PatchState(patches, target, "")
           w == IF superOk THEN TimeTearDown(w0, nowPatcher, dtPatcher)
                ELSE [w0 EXCEPT !.raised = "Exception"]
       IN /\ patches' = w.patches
          /\ target' = w.target
          /\ raised' = w.raised
    /\ phase' = "idle"
    /\ ClockStep("tearDown", Arg(body, IF superOk THEN "ok" ELSE "super raised"))
    /\ UNCHANGED <<tests, ops, clockVars>>

\* timezone.now() called by the test body, or by other code between tests
ReadNow ==
    /\ ops < MaxOps
    /\ lastRead' = TimezoneNow(target, now, realClock)
    /\ prevRead' = lastRead
    /\ readsSince' = readsSince + 1
    /\ ops' = ops + 1
    /\ raised' = ""
    /\ ClockStep("read", NoArg)
    /\ UNCHANGED <<phase, tests, patchVars, now, realClock, nowPatcher, dtPatcher>>

\* self.now = v
SetNow(v) ==
    /\ phase = "test"
    /\ ops < MaxOps
    /\ now[tests] # v
    /\ now' = [now EXCEPT ![tests] = v]
    /\ readsSince' = 0
    /\ ops' = ops + 1
    /\ raised' = ""
    /\ ClockStep("set_now", NoArg)
    /\ UNCHANGED <<phase, tests, patchVars, realClock, nowPatcher, dtPatcher,
                   lastRead, prevRead>>

\* real time passes
Tick ==
    /\ realClock < MaxTime
    /\ realClock' = realClock + 1
    /\ raised' = ""
    /\ ClockStep("tick", NoArg)
    /\ UNCHANGED <<phase, tests, ops, patchVars, now, nowPatcher, dtPatcher,
                   lastRead, prevRead, readsSince>>

\* django.utils.timezone may or may not expose the datetime attribute that
\* the second patch replaces
ClockSpecInit ==
    /\ FixtureInit /\ ClockInit /\ DpInit /\ OvInit /\ ExtInit
    /\ phase = "idle" /\ tests = 0 /\ ops = 0
    /\ lastOp = "init" /\ lastArg = NoArg /\ raised = ""
    /\ build \in Builds
    /\ patches = <<>>
    /\ \E dt \in {TV("datetime", 0, 0), Missing} :
            target = [SettingsInit EXCEPT !["timezone.datetime"] = dt]

ClockNext ==
    \/ ClockSetUp
    \/ \E body \in {"pass", "fail"}, superOk \in BOOLEAN : ClockTearDown(body, superOk)
    \/ ReadNow
    \/ \E v \in Times : SetNow(v)
    \/ Tick

SpecClock == ClockSpecInit /\ [][ClockNext]_vars

ClockPatched ==
    /\ nowPatcher # 0
    /\ patches[nowPatcher].active
    /\ target["timezone.now"] = patches[nowPatcher].new

\* C5 (clock determinism): while the test runs with its clock patch active,
\* timezone.now() returns the current self.now, so a read after an assignment
\* returns the assigned value and two reads with no assignment between agree
C5_ClockDeterminism ==
    (lastOp = "read" /\ phase = "test" /\ ClockPatched) =>
        /\ lastRead = now[tests]
        /\ readsSince >= 2 => lastRead = prevRead

\* self.now was assigned an instant that is neither the real time nor the
\* value of the earlier read, and the next read returned it
C5_Witness ==
    /\ lastOp = "read" /\ phase = "test" /\ ClockPatched
    /\ readsSince = 1
    /\ lastRead = now[tests]
    /\ lastRead # prevRead
    /\ lastRead # realClock
    /\ lastRead # patches[nowPatcher].new.ret

\* C6 (clock patch lifecycle): once a test has ended, whatever its outcome,
\* both patchers of the instance are inactive
C6_PatchesStoppedAfterTest ==
    (phase = "idle" /\ tests > 0) =>
        /\ \A id \in {nowPatcher, dtPatcher} \ {0} : ~patches[id].active
        /\ \A id \in 1..Len(patches) : ~patches[id].active

\* ================================= disable_patchers (utils.py): SpecPatchers
MaxPatchers == 2    \* patches handed to one disable_patchers

\* three patch objects of a test case, each started or not
PatcherObjects ==
    <<NewPatch("timezone.now", TV("get_now", 1, 0)),
      NewPatch("timezone.datetime", TV("MockedDateTime", 0, 0)),
      NewPatch("defaults.setting_1", TV("changed1", 0, 0))>>

\* the argument lists of disable_patchers: each patch is named once
PatcherLists ==
    {l \in UNION {[1..n -> 1..Len(PatcherObjects)] : n \in 1..MaxPatchers} :
        \A i, j \in 1..Len(l) : i # j => l[i] # l[j]}

Flags(ps) == [i \in 1..Len(ps) |-> ps[i].active]

StartOnReturn(w, ids, work) ==
    IF work = "raise" THEN [w EXCEPT !.raised = ""] ELSE StartAll([w EXCEPT !.raised = ""], ids, 1)

\* the finally block of disable_patchers.__call__.inner
FinallyStart(w, ids, work) == StartAll([w EXCEPT !.raised = ""], ids, 1)

ExitStartReversed(w, ids, work) ==
    StartAll([w EXCEPT !.raised = ""], [i \in 1..Len(ids) |-> ids[Len(ids) + 1 - i]], 1)

\* disable_patchers.__exit__
ExitStart(w, ids, work) == StartAll([w EXCEPT !.raised = ""], ids, 1)

\* the exception the caller sees: one raised while restarting replaces the one
\* of the work, which otherwise propagates
Surfaced(startError, work) ==
    IF startError # "" THEN startError
    ELSE IF work = "raise" THEN "WorkError" ELSE ""

DpStep(op) ==
    /\ lastOp' = op
    /\ lastArg' = NoArg
    /\ UNCHANGED <<heap, attrs, dictOrder, cache, store, store0, result, phase, tests,
                   ops, raised, pristine, forgotten, polluted, build, clockVars, ovVars,
                   extVars>>

\* inner() of the decorator form up to the call of func: the stop loop; when a
\* stop raises, the finally block runs at once and the call is over
DecoratorEnter(l) ==
    /\ dpPhase = "idle"
    /\ LET w1 == StopAll(PatchState(patches, target, ""), l, 1)
           w2 == IF w1.raised = "" THEN w1 ELSE FinallyStart(w1, l, "")
       IN /\ patches' = w2.patches
          /\ target' = w2.target
          /\ dpPhase' = IF w1.raised = "" THEN "work" ELSE "done"
          /\ dpError' = IF w2.raised # "" THEN w2.raised ELSE w1.raised
          /\ dpLog' = w2.log
    /\ dpList' = l
    /\ dpForm' = "decorator"
    /\ dpBefore' = Flags(patches)
    /\ dpStart' = [patches |-> patches, target |-> target]
    /\ dpWork' = ""
    /\ DpStep("decorator_enter")

\* __enter__ of the context-manager form: when a stop raises, the with
\* statement is not entered and __exit__ is not called
ContextEnter(l) ==
    /\ dpPhase = "idle"
    /\ LET w1 == StopAll(PatchState(patches, target, ""), l, 1)
       IN /\ patches' = w1.patches
          /\ target' = w1.target
          /\ dpPhase' = IF w1.raised = "" THEN "work" ELSE "done"
          /\ dpError' = w1.raised
          /\ dpLog' = w1.log
    /\ dpList' = l
    /\ dpForm' = "context"
    /\ dpBefore' = Flags(patches)
    /\ dpStart' = [patches |-> patches, target |-> target]
    /\ dpWork' = ""
    /\ DpStep("context_enter")

\* the protected work returns or raises
DpWork(outcome) ==
    /\ dpPhase = "work"
    /\ dpPhase' = "worked"
    /\ dpWork' = outcome
    /\ dpLog' = Append(dpLog, Call("work", 0, FALSE))
    /\ DpStep("work")
    /\ UNCHANGED <<patches, target, dpList, dpForm, dpBefore, dpError, dpStart>>

\* the finally block of inner() after func returned or raised
DecoratorExit ==
    /\ dpPhase = "worked"
    /\ dpForm = "decorator"
    /\ LET w == FinallyStart(PatchState(patches, target, ""), dpList, dpWork)
       IN /\ patches' = w.patches
          /\ target' = w.target
          /\ dpError' = Surfaced(w.raised, dpWork)
          /\ dpLog' = dpLog \o w.log
    /\ dpPhase' = "done"
    /\ DpStep("decorator_exit")
    /\ UNCHANGED <<dpList, dpForm, dpBefore, dpWork, dpStart>>

\* __exit__ after the with block returned or raised
ContextExit ==
    /\ dpPhase = "worked"
    /\ dpForm = "context"
    /\ LET w == ExitStart(PatchState(patches, target, ""), dpList, dpWork)
       IN /\ patches' = w.patches
          /\ target' = w.target
          /\ dpError' = Surfaced(w.raised, dpWork)
          /\ dpLog' = dpLog \o w.log
    /\ dpPhase' = "done"
    /\ DpStep("context_exit")
    /\ UNCHANGED <<dpList, dpForm, dpBefore, dpWork, dpStart>>

\* every patch object was started before, or not
PatchersSpecInit ==
    /\ FixtureInit /\ RunInit /\ ClockInit /\ DpInit /\ OvInit /\ ExtInit
    /\ build \in Builds
    /\ \E started \in [1..Len(PatcherObjects) -> BOOLEAN] :
        LET w == StartAll(PatchState(PatcherObjects, SettingsInit, ""),
                          SelectSeq(<<1, 2, 3>>, LAMBDA i : started[i]), 1)
        IN patches = w.patches /\ target = w.target

PatchersNext ==
    \/ \E l \in PatcherLists : DecoratorEnter(l)
    \/ \E l \in PatcherLists : ContextEnter(l)
    \/ \E outcome \in {"return", "raise"} : DpWork(outcome)
    \/ DecoratorExit
    \/ ContextExit

SpecPatchers == PatchersSpecInit /\ [][PatchersNext]_vars

AllActiveBefore == \A i \in 1..Len(dpList) : dpBefore[dpList[i]]

\* C4 (patch balance of disable_patchers): when every listed patch is active
\* before the suspension, each of them is inactive while the work runs, the
\* work does run, and when the suspension is over every patch is active or
\* inactive as it was before, in both forms and whether the work returned or
\* raised
C4_PatchBalance ==
    (dpPhase # "idle" /\ AllActiveBefore) =>
        /\ dpPhase \in {"work", "worked"} =>
              \A i \in 1..Len(dpList) :
                  /\ ~patches[dpList[i]].active
                  /\ target[patches[dpList[i]].target] = SettingsInit[patches[dpList[i]].target]
        /\ dpPhase = "done" =>
              /\ dpWork # ""
              /\ Flags(patches) = dpBefore
              /\ \A i \in 1..Len(dpList) :
                    target[patches[dpList[i]].target] = patches[dpList[i]].new

\* two active patches were suspended by the context-manager form around work
\* that raised, and are active again
C4_Witness ==
    /\ dpPhase = "done" /\ AllActiveBefore
    /\ dpForm = "context" /\ dpWork = "raise" /\ dpError = "WorkError"
    /\ Len(dpList) = 2
    /\ \A i \in 1..Len(dpList) : patches[dpList[i]].active

\* ================================ override_defaults (utils.py): SpecOverride
MaxCycles == 2      \* scopes entered on one override_defaults instance
MaxSettings == 2    \* settings named by one override_defaults

SettingTargets == {"defaults.setting_1", "defaults.setting_2", "defaults.setting_3"}

\* the value given for a setting
OverrideValue(t) ==
    CASE t = "defaults.setting_1" -> TV("changed1", 0, 0)
      [] t = "defaults.setting_2" -> TV("changed2", 0, 0)
      [] OTHER -> TV("changed3", 0, 0)

\* the keyword arguments of override_defaults, in order: each setting once
SettingLists ==
    {l \in UNION {[1..n -> SettingTargets] : n \in 1..MaxSettings} :
        \A i, j \in 1..Len(l) : i # j => l[i] # l[j]}

EnableState(w, own, created) == [w |-> w, patchers |-> own, created |-> created]

\* the loop of enable(): patch, append to self.patchers, start
RECURSIVE EnableFrom(_, _, _)
EnableFrom(e, settings, i) ==
    IF i > Len(settings) \/ e.w.raised # "" THEN e
    ELSE LET ps == Append(e.w.patches, NewPatch(settings[i], OverrideValue(settings[i])))
             id == Len(ps)
         IN EnableFrom(EnableState(PatchStart([e.w EXCEPT !.patches = ps], id),
                                   Append(e.patchers, id), Append(e.created, id)),
                       settings, i + 1)

\* override_defaults.enable
EnableOp(w, own, settings) == EnableFrom(EnableState(w, own, <<>>), settings, 1)

\* override_defaults.disable
DisableOp(w, own) == StopAll(w, own, 1)

OvStep(op) ==
    /\ lastOp' = op
    /\ lastArg' = NoArg
    /\ UNCHANGED <<heap, attrs, dictOrder, cache, store, store0, result, phase, tests,
                   ops, raised, pristine, forgotten, polluted, build, clockVars, dpVars,
                   extVars>>

\* the scope is entered (TestContextDecorator.__enter__ calls enable()): when
\* enable() raises, the scope is not entered and disable() is not called
Enable ==
    /\ ovPhase = "idle"
    /\ ovCycles < MaxCycles
    /\ LET e == EnableOp(PatchState(patches, target, ""), ovPatchers, ovSettings)
       IN /\ patches' = e.w.patches
          /\ target' = e.w.target
          /\ ovPatchers' = e.patchers
          /\ ovStarted' = e.created
          /\ ovError' = e.w.raised
          /\ ovPhase' = IF e.w.raised = "" THEN "entered" ELSE "idle"
    /\ ovBefore' = target
    /\ ovCycles' = ovCycles + 1
    /\ ovWork' = ""
    /\ OvStep("enable")
    /\ UNCHANGED <<ovSettings, ovLog>>

\* the decorated function or the with block returns or raises
OvWork(outcome) ==
    /\ ovPhase = "entered"
    /\ ovPhase' = "worked"
    /\ ovWork' = outcome
    /\ OvStep("work")
    /\ UNCHANGED <<patches, target, ovSettings, ovPatchers, ovCycles, ovBefore,
                   ovStarted, ovError, ovLog>>

\* the scope is left (TestContextDecorator.__exit__ calls disable())
Disable ==
    /\ ovPhase = "worked"
    /\ LET w == DisableOp(PatchState(patches, target, ""), ovPatchers)
       IN /\ patches' = w.patches
          /\ target' = w.target
          /\ ovError' = w.raised
          /\ ovLog' = w.log
    /\ ovPhase' = "idle"
    /\ OvStep("disable")
    /\ UNCHANGED <<ovSettings, ovPatchers, ovCycles, ovBefore, ovStarted, ovWork>>

\* override_defaults.__init__ with one of the keyword lists
OverrideSpecInit ==
    /\ FixtureInit /\ RunInit /\ ClockInit /\ DpInit /\ PatchInit /\ ExtInit
    /\ ovSettings \in SettingLists
    /\ ovPatchers = <<>>
    /\ ovPhase = "idle"
    /\ ovCycles = 0
    /\ ovBefore = SettingsInit
    /\ ovStarted = <<>>
    /\ ovWork = ""
    /\ ovError = ""
    /\ ovLog = <<>>

OverrideNext ==
    \/ Enable
    \/ \E outcome \in {"return", "raise"} : OvWork(outcome)
    \/ Disable

SpecOverride == OverrideSpecInit /\ [][OverrideNext]_vars

\* C7 (override_defaults scope): inside the scope every named setting has its
\* override value; once the scope is left, whether the work returned or
\* raised, every named setting has the value it had before the scope and no
\* patch of the instance is active
C7_OverrideScope ==
    /\ ovPhase \in {"entered", "worked"} =>
          \A i \in 1..Len(ovSettings) : target[ovSettings[i]] = OverrideValue(ovSettings[i])
    /\ lastOp = "disable" =>
          /\ \A i \in 1..Len(ovSettings) : target[ovSettings[i]] = ovBefore[ovSettings[i]]
          /\ \A i \in 1..Len(ovPatchers) : ~patches[ovPatchers[i]].active

\* C8 (override_defaults atomicity): after enable() returned or raised, the
\* patches of that call are all active or all inactive
C8_EnableAtomic ==
    lastOp = "enable" =>
        \/ \A i \in 1..Len(ovStarted) : patches[ovStarted[i]].active
        \/ \A i \in 1..Len(ovStarted) : ~patches[ovStarted[i]].active

\* ============================================ helper calls of BaseTestCase
\* the objects the class attributes and the registry are made of
HeldParts(h, at, ch) ==
    UNION {Parts(h, at[k]) : k \in Keys} \cup UNION {Parts(h, ch[i].v) : i \in 1..Len(ch)}

\* C11 (reload): reload(F) returns a new object with the type and pk of F and
\* the fields of the row the store holds for that pk, and leaves F, the other
\* class attributes, the registry and the store as they were
C11_ReloadFresh ==
    [][lastOp' = "reload" =>
        LET k == lastArg'.k
            F == heap[attrs[k].addr]
            r == store[<<F.type, F.pk>>]
            c == heap'[result'.addr]
        IN /\ result'.kind = "ref"
           /\ result'.addr \notin HeldParts(heap', attrs', cache')
           /\ c.type = F.type /\ c.pk = F.pk
           /\ c.name = r.name /\ c.fk = r.fk
           /\ \A j \in Keys : Struct(heap', attrs'[j]) = Live(j)
           /\ \A i \in 1..Len(cache) : Struct(heap', cache'[i].v) = Struct(heap, cache[i].v)
           /\ Len(cache') = Len(cache)
           /\ store' = store]_vars

\* after update_object(project, name='altered') the reloaded object carries
\* the stored name while project in memory keeps the old one
C11_Witness ==
    /\ lastOp = "reload" /\ lastArg = Arg("project", "")
    /\ heap[result.addr].name = "altered"
    /\ heap[attrs["project"].addr].name = "initial"
    /\ store[<<"Project", 1>>].name = "altered"

\* ------------------------------------------- assert_object_fields: SpecHelpers
\* getattr(obj, field) for the fields name and pk
GetAttr(o, field) == IF field = "name" THEN Fv(o.name, 0) ELSE Fv("", o.pk)

\* self.assertEqual(first, second, msg): the AssertionError it raises is made
\* of the two values and the message
AssertEqual(first, second, msg) ==
    IF first = second THEN NoFailure
    ELSE [field |-> msg, actual |-> first, expected |-> second]

\* the loop of assert_object_fields over kwargs.items(), from position i
RECURSIVE AssertFieldsFrom(_, _, _)
AssertFieldsFrom(o, kwargs, i) ==
    IF i > Len(kwargs) THEN NoFailure
    ELSE LET f == AssertEqual(GetAttr(o, kwargs[i].field), kwargs[i].value, kwargs[i].field)
         IN IF f # NoFailure THEN f ELSE AssertFieldsFrom(o, kwargs, i + 1)

AssertObjectFieldsInMemory(h, st, a, kwargs) == AssertFieldsFrom(h[a], kwargs, 1)

\* assert_object_fields(obj, **kwargs): an object with a pk is reloaded first
AssertObjectFieldsOp(h, st, a, kwargs) ==
    LET obj == IF h[a].pk # 0
               THEN LET c == ReloadOp(h, st, a) IN c.heap[c.addr]
               ELSE h[a]
    IN AssertFieldsFrom(obj, kwargs, 1)

\* keyword arguments given to assert_object_fields, in order
Kw(field, value) == [field |-> field, value |-> value]
ExpectedLists ==
    {<<Kw("name", Fv("initial", 0))>>,
     <<Kw("name", Fv("changed", 0))>>,
     <<Kw("name", Fv("altered", 0)), Kw("pk", Fv("", 1))>>,
     <<Kw("pk", Fv("", 2)), Kw("name", Fv("changed", 0))>>,
     <<Kw("pk", Fv("", 0)), Kw("name", Fv("initial", 0))>>}

\* an instance that was never saved, built for the call
UnsavedArg == Model("Project", 0, "changed", 0, 0)

HelperStep(op, arg) ==
    /\ ops' = ops + 1
    /\ lastOp' = op
    /\ lastArg' = arg
    /\ UNCHANGED <<heap, attrs, cache, result, store, forgotten, dictOrder, store0, phase,
                   tests, pristine, polluted, patchVars, clockVars, dpVars, ovVars,
                   classVars>>

\* self.assert_object_fields(obj, **kwargs), obj being self.<src> or an
\* unsaved instance
AssertObjectFields(src, kwargs) ==
    /\ InBody
    /\ LET h == IF src = "<unsaved>" THEN Append(heap, UnsavedArg) ELSE heap
           a == IF src = "<unsaved>" THEN Alloc(heap) ELSE attrs[src].addr
       IN /\ src # "<unsaved>" => attrs[src].kind = "ref"
          /\ h[a].pk # 0 => store[<<h[a].type, h[a].pk>>].exists
          /\ failure' = AssertObjectFieldsOp(h, store, a, kwargs)
    /\ raised' = IF failure' = NoFailure THEN "" ELSE "AssertionError"
    /\ expected' = kwargs
    /\ HelperStep("assert_object_fields", Arg(src, ""))

HelpersNext ==
    \/ SetUpTestData(FALSE, Absent)
    \/ SetUp
    \/ TearDown
    \/ \E n \in MutNames : SetField("project", n)
    \/ \E n \in StoreNames : UpdateObject("project", n)
    \/ \E src \in {"project", "<unsaved>"}, kwargs \in ExpectedLists :
            AssertObjectFields(src, kwargs)

SpecHelpers == Init /\ [][HelpersNext]_vars

\* C12 (assert_object_fields): for an object with a pk every named field is
\* compared with the row the store holds for that pk, for an unsaved object
\* with the object itself; the call passes iff all named fields match and
\* otherwise raises the AssertionError that assertEqual(actual, expected,
\* field) raises for the first field that differs; memory and store are left
\* as they were
C12_AssertAgainstStore ==
    [][lastOp' = "assert_object_fields" =>
        LET F == IF lastArg'.k = "<unsaved>" THEN UnsavedArg
                 ELSE heap[attrs[lastArg'.k].addr]
            actual(f) == IF F.pk = 0 THEN GetAttr(F, f)
                         ELSE IF f = "name" THEN Fv(store[<<F.type, F.pk>>].name, 0)
                         ELSE Fv("", F.pk)
            bad == {i \in 1..Len(expected') : actual(expected'[i].field) # expected'[i].value}
        IN /\ (raised' = "") <=> (bad = {})
           /\ bad = {} => failure' = NoFailure
           /\ bad # {} =>
                /\ raised' = "AssertionError"
                /\ failure' = [field |-> expected'[Min(bad)].field,
                               actual |-> actual(expected'[Min(bad)].field),
                               expected |-> expected'[Min(bad)].value]
           /\ heap' = heap /\ attrs' = attrs /\ cache' = cache /\ store' = store]_vars

\* project is 'changed' in memory and 'altered' in the store: expecting
\* name='changed' fails with the stored name as the actual value, after pk
\* passed
C12_Witness ==
    /\ lastOp = "assert_object_fields" /\ lastArg = Arg("project", "")
    /\ heap[attrs["project"].addr].name = "changed"
    /\ store[<<"Project", 1>>].name = "altered"
    /\ raised = "AssertionError"
    /\ failure = [field |-> "name", actual |-> Fv("altered", 0), expected |-> Fv("changed", 0)]

\* ------------------------------------------------ forget_object, no match
\* the matching rule forget_object is meant to apply: same type and same pk,
\* and the very same object when there is no pk
Matches(h, v, obj) ==
    IF v.kind = "ref" /\ obj.kind = "ref"
    THEN /\ h[v.addr].type = h[obj.addr].type
         /\ IF h[obj.addr].pk # 0 THEN h[v.addr].pk = h[obj.addr].pk
            ELSE v.addr = obj.addr
    ELSE v = obj

NoMatch(h, ch, obj) == \A i \in 1..Len(ch) : ~Matches(h, ch[i].v, obj)

\* the registry and the class attributes without object identity
RegistryView(h, ch) == [i \in 1..Len(ch) |-> <<ch[i].k, Struct(h, ch[i].v)>>]
AttrsView(h, at) == [k \in Keys |-> Struct(h, at[k])]

\* C13 (forget_object without a match): when the value matches no registry
\* entry, forget_object raises nothing and leaves the registry and the class
\* attributes as they were
C13_ForgetNoMatchSilent ==
    [][lastOp' = "forget_object" =>
        LET obj == IF lastArg'.k = "<result>" THEN result ELSE attrs[lastArg'.k]
        IN NoMatch(heap, cache, obj) =>
            /\ raised' = ""
            /\ RegistryView(heap', cache') = RegistryView(heap, cache)
            /\ AttrsView(heap', attrs') = AttrsView(heap, attrs)]_vars

\* ======================= classes built by BaseTestCaseMeta: SpecClasses
\* Base defines setUpTestData; Sub(Base) defines attr = 'x' in its class body
\* and either inherits setUpTestData or defines one that calls
\* super().setUpTestData() first; Other(Base) inherits everything
MaxStmts == 2       \* statements in the setUpTestData body of Base
MaxClassOps == 2    \* refresh_objects / forget_object calls on the classes

\* one statement of a setUpTestData body: cls.<k> = <what>
St(k, what) == [k |-> k, what |-> what]
BaseStmts == {St("project", "create"), St("project", "unsaved"),
              St("attr", "a"), St("attr", "none")}
SubStmts == {St("attr", "x"), St("project2", "create")}
BaseBodies == UNION {[1..n -> BaseStmts] : n \in 1..MaxStmts}
SubBodies == {<<>>} \cup {<<st>> : st \in SubStmts}

\* cls.<k> = Project(name='initial'): an instance that is not saved
NewAttr(s, k, t, n) ==
    [s EXCEPT !.heap = Append(@, Model(t, 0, n, 0, 0)),
              !.attrs = [@ EXCEPT ![k] = Ref(Alloc(s.heap))],
              !.order = SetAttrOrder(@, k)]

\* cls.<k> = v for a plain value
SetPlain(s, k, v) ==
    [s EXCEPT !.attrs = [@ EXCEPT ![k] = v], !.order = SetAttrOrder(@, k)]

ExecStmt(s, st) ==
    CASE st.what = "create" -> CreateAttr(s, st.k, "Project", "initial", 0)
      [] st.what = "unsaved" -> NewAttr(s, st.k, "Project", "initial")
      [] st.what = "none" -> SetPlain(s, st.k, NoneVal)
      [] OTHER -> SetPlain(s, st.k, Str(st.what))

RECURSIVE Exec(_, _, _)
Exec(s, body, i) == IF i > Len(body) THEN s ELSE Exec(ExecStmt(s, body[i]), body, i + 1)

\* the setUpTestData attribute of a class: a classmethod around `layers`
\* nested wrappers around the function func; flag is _records_objects, which
\* BaseTestCaseMeta sets on the classmethod object
Classmethod(layers, func, flag) == [layers |-> layers, func |-> func, flag |-> flag]

\* getattr(base, 'setUpTestData'): a bound method, whose attributes are those
\* of the wrapped function and not those of the classmethod object
BoundMethod(cm) == Classmethod(cm.layers, cm.func, FALSE)

\* BaseTestCaseMeta.__new__: own is the function the class body defines ("" when
\* none), baseCm the setUpTestData of the first base that has one
MetaNew(own, baseCm) ==
    LET setup == IF own # "" THEN Classmethod(0, own, FALSE) ELSE BoundMethod(baseCm)
    IN IF ~setup.flag THEN Classmethod(setup.layers + 1, setup.func, TRUE) ELSE baseCm

BaseRoutine == MetaNew("Base", Classmethod(0, "", FALSE))
Routine(c) ==
    CASE c = "Base" -> BaseRoutine
      [] c = "Sub" /\ subBody # <<>> -> MetaNew("Sub", BaseRoutine)
      [] OTHER -> MetaNew("", BaseRoutine)

\* the class whose _created_objects getattr(cls, '_created_objects') finds:
\* every class gets a dict of its own in __new__
RegOwnerRoot(c) == "Base"

RegOwner(c) == c

\* a call of the setUpTestData function func on class state s, and a call of
\* `n` wrappers around it; with single, only the outermost wrapper exists
RECURSIVE RunLayers(_, _, _, _)
RECURSIVE RunFunc(_, _, _)
RunFunc(s, func, single) ==
    IF func = "Base"
    THEN [Exec(s, baseBody, 1) EXCEPT !.runs = @ + 1]
    ELSE Exec(RunLayers(s, IF single THEN 0 ELSE BaseRoutine.layers, "Base", single),
              subBody, 1)

RunLayers(s, n, func, single) ==
    IF n = 0 THEN RunFunc(s, func, single)
    ELSE WrapperCapture(s, RunLayers(s, n - 1, func, single))

\* getattr(cls, k) through the bases
GetAttrCls(c, k) ==
    IF clsDict[c][k] # Absent \/ c = "Base" THEN clsDict[c][k] ELSE clsDict["Base"][k]

EmptyStore == [key \in Tables \X (1..MaxPk) |-> NoRow]

ClassStep(op, arg) ==
    /\ lastOp' = op
    /\ lastArg' = arg
    /\ UNCHANGED <<attrs, dictOrder, cache, store, store0, result, phase, tests, ops,
                   pristine, forgotten, polluted, patchVars, clockVars, dpVars, ovVars,
                   helperVars, baseBody, subBody>>

\* the runner calls c.setUpTestData() in the transaction of the class
ClassSetUp(c) ==
    /\ c \notin clsDone
    /\ LET s0 == ClassState(heap, clsDict[c], clsOrder[c], clsReg[RegOwner(c)], EmptyStore)
                    @@ [runs |-> 0]
           s1 == RunLayers(s0, Routine(c).layers, Routine(c).func, FALSE)
           s2 == RunLayers(s0, 1, Routine(c).func, TRUE)
       IN /\ heap' = s1.heap
          /\ clsDict' = [clsDict EXCEPT ![c] = s1.attrs]
          /\ clsOrder' = [clsOrder EXCEPT ![c] = s1.order]
          /\ clsReg' = [clsReg EXCEPT ![RegOwner(c)] = s1.cache]
          /\ regSingle' = [regSingle EXCEPT ![c] = s2.cache]
          /\ bodyRuns' = [bodyRuns EXCEPT ![c] = s1.runs]
    /\ clsDone' = clsDone \cup {c}
    /\ raised' = ""
    /\ ClassStep("setUpTestData", Arg(c, ""))
    /\ UNCHANGED <<classOps>>

\* c.refresh_objects()
ClassRefresh(c) ==
    /\ c \in clsDone
    /\ classOps < MaxClassOps
    /\ LET r == RefreshObjectsOp(heap, clsDict[c], clsReg[RegOwner(c)])
       IN /\ heap' = r.heap
          /\ clsDict' = [clsDict EXCEPT ![c] = r.attrs]
    /\ classOps' = classOps + 1
    /\ raised' = ""
    /\ ClassStep("refresh_objects", Arg(c, ""))
    /\ UNCHANGED <<clsOrder, clsReg, clsDone, regSingle, bodyRuns>>

\* c.forget_object(obj), obj being c.<src> or an unsaved instance built for
\* the call
ClassForget(c, src) ==
    /\ c \in clsDone
    /\ classOps < MaxClassOps
    /\ LET h == IF src = "<unsaved>" THEN Append(heap, UnsavedArg) ELSE heap
           obj == IF src = "<unsaved>" THEN Ref(Alloc(heap)) ELSE GetAttrCls(c, src)
           key == ForgetKey(h, clsReg[RegOwner(c)], obj)
       IN /\ obj.kind # "absent"
          /\ heap' = heap
          /\ clsReg' = [clsReg EXCEPT ![RegOwner(c)] = ForgetDelete(@, key)]
          /\ raised' = IF key = "!" THEN "AttributeError" ELSE ""
    /\ classOps' = classOps + 1
    /\ ClassStep("forget_object", Arg(c, src))
    /\ UNCHANGED <<clsDict, clsOrder, clsDone, regSingle, bodyRuns>>

ClassesSpecInit ==
    /\ FixtureInit /\ RunInit /\ ClockInit /\ PatchInit /\ DpInit /\ OvInit /\ HelperInit
    /\ build = [stop |-> "none", start |-> "reapply"]
    /\ baseBody \in BaseBodies
    /\ subBody \in SubBodies
    /\ clsDict = [c \in Classes |->
                    [k \in Keys |-> IF c = "Sub" /\ k = "attr" THEN Str("x") ELSE Absent]]
    /\ clsOrder = [c \in Classes |-> IF c = "Sub" THEN <<"attr">> ELSE <<>>]
    /\ clsReg = [c \in Classes |-> <<>>]
    /\ clsDone = {}
    /\ regSingle = [c \in Classes |-> <<>>]
    /\ bodyRuns = [c \in Classes |-> 0]
    /\ classOps = 0

ClassesNext ==
    \/ \E c \in Classes : ClassSetUp(c)
    \/ \E c \in Classes : ClassRefresh(c)
    \/ \E c \in Classes, src \in {"project", "<unsaved>"} : ClassForget(c, src)

SpecClasses == ClassesSpecInit /\ [][ClassesNext]_vars

\* the statements setUpTestData of class c runs, in order
EffectiveBody(c) == IF c = "Sub" THEN baseBody \o subBody ELSE baseBody
AssignedKeys(c) == {EffectiveBody(c)[i].k : i \in 1..Len(EffectiveBody(c))}

\* C14 (diff-based capture): when setUpTestData of a class has returned, its
\* registry holds exactly the attributes the routine assigned, each with the
\* value the attribute has then
C14_CaptureAssigned ==
    [][lastOp' = "setUpTestData" =>
        LET c == lastArg'.k
            reg == clsReg'[c]
        IN /\ CacheKeys(reg) = AssignedKeys(c)
           /\ \A k \in CacheKeys(reg) : CacheGet(reg, k) = clsDict'[c][k]]_vars

\* a registry as a mapping, without its insertion order
Entries(ch) == {<<ch[i].k, ch[i].v>> : i \in 1..Len(ch)}

\* C15 (double wrapping): the nested wrappers of a class leave its registry
\* with the keys and values one wrapper alone would leave, and the body of
\* Base runs once
C15_DoubleWrapHarmless ==
    [][lastOp' = "setUpTestData" =>
        LET c == lastArg'.k
        IN /\ bodyRuns'[c] = 1
           /\ Entries(clsReg'[c]) = Entries(regSingle'[c])]_vars

\* C16 (matching rule of forget_object): an entry is removed only if its
\* snapshot has the type and the pk of the argument, or is the argument itself
\* when that has no pk; every entry that does not match stays
C16_ForgetMatchingRule ==
    [][lastOp' = "forget_object" =>
        LET c == lastArg'.k
            h == IF lastArg'.n = "<unsaved>" THEN Append(heap, UnsavedArg) ELSE heap
            obj == IF lastArg'.n = "<unsaved>" THEN Ref(Len(h))
                   ELSE GetAttrCls(c, lastArg'.n)
            old == clsReg[c]
        IN \A i \in 1..Len(old) :
              ~Matches(h, old[i].v, obj) =>
                  \E j \in 1..Len(clsReg'[c]) : clsReg'[c][j] = old[i]]_vars

\* the registry of class d and the objects it holds
RegistryOf(h, d) ==
    [i \in 1..Len(clsReg[d]) |->
        <<clsReg[d][i].k, clsReg[d][i].v,
          IF clsReg[d][i].v.kind = "ref" THEN h[clsReg[d][i].v.addr] ELSE <<>>>>]

\* C18 (one registry per class): capture, refresh_objects and forget_object
\* on one class leave the registry of every other class, and the objects in
\* it, as they were
C18_RegistryPerClass ==
    [][lastOp' \in {"setUpTestData", "refresh_objects", "forget_object"} =>
        \A d \in Classes \ {lastArg'.k} :
            /\ clsReg'[d] = clsReg[d]
            /\ \A i \in 1..Len(clsReg[d]) :
                  clsReg[d][i].v.kind = "ref" =>
                      heap'[clsReg[d][i].v.addr] = heap[clsReg[d][i].v.addr]]_vars

\* the three classes are set up, each captured project, and Sub has forgotten
\* its own while Base and Other still hold theirs
C18_Witness ==
    /\ clsDone = Classes
    /\ lastOp = "forget_object" /\ lastArg = Arg("Sub", "project")
    /\ "project" \notin CacheKeys(clsReg["Sub"])
    /\ "project" \in CacheKeys(clsReg["Base"]) \cap CacheKeys(clsReg["Other"])
    /\ CacheGet(clsReg["Base"], "project") # CacheGet(clsReg["Other"], "project")

\* ============================== order and equivalence in disable_patchers
\* the calls a suspension of the list l makes when nothing fails
StopCalls(l) == [i \in 1..Len(l) |-> Call("stop", l[i], TRUE)]
StartCalls(l) == [i \in 1..Len(l) |-> Call("start", l[i], FALSE)]

\* C17 (order of suspend / resume): with the listed patches active, they are
\* stopped in list order, then the work runs, then they are started in list
\* order; when the work raises they are started all the same and the error of
\* the work reaches the caller, in both forms
C17_SuspendResumeOrder ==
    (dpPhase # "idle" /\ AllActiveBefore) =>
        /\ dpPhase = "work" => dpLog = StopCalls(dpList)
        /\ dpPhase = "worked" => dpLog = Append(StopCalls(dpList), Call("work", 0, FALSE))
        /\ dpPhase = "done" =>
              /\ dpLog = Append(StopCalls(dpList), Call("work", 0, FALSE)) \o StartCalls(dpList)
              /\ dpError = (IF dpWork = "raise" THEN "WorkError" ELSE "")
              /\ \A i \in 1..Len(dpList) : patches[dpList[i]].active

\* the decorator form suspended the setting patch and then the clock patch
\* around work that raised; both run again and the caller got the error
C17_Witness ==
    /\ dpPhase = "done" /\ AllActiveBefore
    /\ dpForm = "decorator" /\ dpList = <<3, 1>>
    /\ dpWork = "raise" /\ dpError = "WorkError"
    /\ dpLog[1] = Call("stop", 3, TRUE) /\ dpLog[5] = Call("start", 1, FALSE)

\* a whole call of the decorated function: what it leaves and what it raises
DecoratorCall(w, l, work) ==
    LET w1 == StopAll(w, l, 1)
    IN IF w1.raised # ""
       THEN LET w2 == FinallyStart(w1, l, "")
            IN [w |-> w2, error |-> IF w2.raised # "" THEN w2.raised ELSE w1.raised]
       ELSE LET w2 == FinallyStart(w1, l, work)
            IN [w |-> w2, error |-> Surfaced(w2.raised, work)]

\* a whole with statement
ContextCall(w, l, work) ==
    LET w1 == StopAll(w, l, 1)
    IN IF w1.raised # ""
       THEN [w |-> w1, error |-> w1.raised]
       ELSE LET w2 == ExitStart(w1, l, work)
            IN [w |-> w2, error |-> Surfaced(w2.raised, work)]

\* the state and the error a suspension ended with agree with outcome o
SameOutcome(o) ==
    /\ Flags(o.w.patches) = Flags(patches)
    /\ o.w.target = target
    /\ o.error = dpError

\* C20 (the two forms agree): when a suspension is over, the other form, run
\* on the same list from the same patches with the same outcome of the work,
\* would have left every patch active or not as this one did and raised the
\* same
C20_FormsEquivalent ==
    dpPhase = "done" =>
        LET w == PatchState(dpStart.patches, dpStart.target, "")
        IN /\ SameOutcome(DecoratorCall(w, dpList, dpWork))
           /\ SameOutcome(ContextCall(w, dpList, dpWork))

\* each form ends as its own whole call says
FormsAsModelled ==
    dpPhase = "done" =>
        LET w == PatchState(dpStart.patches, dpStart.target, "")
        IN SameOutcome(IF dpForm = "decorator" THEN DecoratorCall(w, dpList, dpWork)
                       ELSE ContextCall(w, dpList, dpWork))

\* ====================================== reuse of an override_defaults
\* C19 (reuse of one instance): after every disable(), on whichever cycle,
\* every named setting has its original value, no patch of the instance is
\* active, and every stop() that disable() called was on an active patch
C19_ReuseClean ==
    lastOp = "disable" =>
        /\ \A i \in 1..Len(ovSettings) : target[ovSettings[i]] = SettingsInit[ovSettings[i]]
        /\ \A i \in 1..Len(ovPatchers) : ~patches[ovPatchers[i]].active
        /\ \A i \in 1..Len(ovLog) : ovLog[i].op = "stop" /\ ovLog[i].active

====
